---- MODULE Spec2Model ----
(***************************************************************************)
(* The retrieval-augmented-generation core of the repository: the          *)
(* VectorStore of src/lib/vector-store.ts (embedding with lexical          *)
(* fallback, cosine ranking) and the pipeline of src/lib/rag-pipeline.ts   *)
(* (context building, answer generation, orchestration).                   *)
(*                                                                         *)
(* Representation.  A JavaScript string is a sequence of one-character     *)
(* strings.  A number[] is a record [kind, len, den, nz]: len is the       *)
(* array's length, nz maps the (1-based) indices of its non-zero entries   *)
(* to integers and den is the common divisor of the entries, so that       *)
(* entry i is nz[i]/den; den = 0 stands for the array whose every entry    *)
(* is 0/0 = NaN.  kind = "undefined" is the JavaScript value undefined.    *)
(* A similarity is the real number num/sqrt(den) kept exactly as the       *)
(* record [nan, num, den]; comparisons are made on squares, so no          *)
(* rounding of the floating-point evaluation is modelled.                  *)
(***************************************************************************)
EXTENDS Integers, Sequences, FiniteSets, TLC

(***************************************************************************)
(* Characters and strings                                                  *)
(***************************************************************************)
LowerAlpha == <<"a","b","c","d","e","f","g","h","i","j","k","l","m",
                "n","o","p","q","r","s","t","u","v","w","x","y","z">>

UpperAlpha == <<"A","B","C","D","E","F","G","H","I","J","K","L","M",
                "N","O","P","Q","R","S","T","U","V","W","X","Y","Z">>

DigitChars == <<"0","1","2","3","4","5","6","7","8","9">>

Range(f) == {f[i] : i \in DOMAIN f}

\* The class \w of the regular expressions: [A-Za-z0-9_].
WordChars == Range(LowerAlpha) \cup Range(UpperAlpha) \cup Range(DigitChars) \cup {"_"}

IsWordChar(c) == c \in WordChars

\* The class \s, on the whitespace characters the model's strings use.
IsSpace(c) == c \in {" ", "\n", "\t"}

LowerOf == [c \in Range(UpperAlpha) |->
              LowerAlpha[CHOOSE i \in DOMAIN UpperAlpha : UpperAlpha[i] = c]]

toLowerCaseChar(c) == IF c \in DOMAIN LowerOf THEN LowerOf[c] ELSE c

toLowerCase(s) == [i \in DOMAIN s |-> toLowerCaseChar(s[i])]

\* s.match(/\b\w+\b/g) || []: the maximal runs of word characters, in order.
RECURSIVE MatchWordsFrom(_, _, _, _)
MatchWordsFrom(s, i, cur, acc) ==
  IF i > Len(s)
  THEN IF cur = <<>> THEN acc ELSE Append(acc, cur)
  ELSE IF IsWordChar(s[i])
       THEN MatchWordsFrom(s, i + 1, Append(cur, s[i]), acc)
       ELSE MatchWordsFrom(s, i + 1, <<>>, IF cur = <<>> THEN acc ELSE Append(acc, cur))

matchWords(s) == MatchWordsFrom(s, 1, <<>>, <<>>)

\* s.split(/\s+/): the pieces between maximal runs of whitespace; a string
\* that starts or ends with whitespace yields an empty first or last piece,
\* and the empty string yields the single piece "".
RECURSIVE SplitRange(_, _, _)
SplitRange(s, lo, hi) ==
  IF lo = hi
  THEN IF IsSpace(s[lo]) THEN <<<<>>, <<>>>> ELSE <<<<s[lo]>>>>
  ELSE LET mid == (lo + hi) \div 2
           left == SplitRange(s, lo, mid)
           right == SplitRange(s, mid + 1, hi)
           front == SubSeq(left, 1, Len(left) - 1)
       IN  IF IsSpace(s[mid]) /\ IsSpace(s[mid + 1])
           THEN front \o Tail(right)
           ELSE front \o <<left[Len(left)] \o right[1]>> \o Tail(right)

splitWhitespace(s) == IF s = <<>> THEN <<<<>>>> ELSE SplitRange(s, 1, Len(s))

\* parts.join(sep)
RECURSIVE join(_, _)
join(parts, sep) ==
  IF parts = <<>> THEN <<>>
  ELSE IF Len(parts) = 1 THEN parts[1]
  ELSE LET half == Len(parts) \div 2
       IN  join(SubSeq(parts, 1, half), sep) \o sep
             \o join(SubSeq(parts, half + 1, Len(parts)), sep)

\* s.trim()
RECURSIVE trimStart(_)
trimStart(s) == IF s # <<>> /\ IsSpace(s[1]) THEN trimStart(Tail(s)) ELSE s

RECURSIVE trimEnd(_)
trimEnd(s) ==
  IF s # <<>> /\ IsSpace(s[Len(s)]) THEN trimEnd(SubSeq(s, 1, Len(s) - 1)) ELSE s

trim(s) == trimEnd(trimStart(s))

\* The decimal digits of a natural number, as String(n) prints them.
RECURSIVE NatToString(_)
NatToString(n) ==
  IF n < 10 THEN <<DigitChars[n + 1]>>
  ELSE Append(NatToString(n \div 10), DigitChars[(n % 10) + 1])

(***************************************************************************)
(* Numbers: number[] values and similarities                               *)
(***************************************************************************)
Undefined == [kind |-> "undefined", len |-> 0, den |-> 1, nz |-> <<>>]

NumberArray(len, den, nz) == [kind |-> "array", len |-> len, den |-> den, nz |-> nz]

\* Entry i of the array is NaN, zero, or nz[i]/den.
HasNaNEntry(v) == v.den = 0 /\ v.len > 0

IsAllZero(v) == v.kind = "array" /\ v.den > 0 /\ DOMAIN v.nz = {}

RECURSIVE SumOver(_, _)
SumOver(S, f) ==
  IF S = {} THEN 0
  ELSE LET x == CHOOSE y \in S : TRUE IN f[x] + SumOver(S \ {x}, f)

NaN == [nan |-> TRUE, num |-> 0, den |-> 1]

Num(n, d) == [nan |-> FALSE, num |-> n, den |-> d]

\* b.similarity - a.similarity style comparisons on exact values:
\* x = num/sqrt(den) is below y iff sign(x)*x^2 is below sign(y)*y^2.
SignedSquare(x) == IF x.num < 0 THEN 0 - (x.num * x.num) ELSE x.num * x.num

NumLess(x, y) == SignedSquare(x) * y.den < SignedSquare(y) * x.den

NumEq(x, y) == SignedSquare(x) * y.den = SignedSquare(y) * x.den

\* x > 0.1; false for NaN as in JavaScript.
GreaterThanCutoff(x) == ~x.nan /\ x.num > 0 /\ 100 * x.num * x.num > x.den

\* Math.round(x * 100) for a number x that is not NaN: floor(100 x + 1/2).
RoundPercent(x) ==
  IF x.num >= 0
  THEN CHOOSE r \in 0..100 :
         /\ (r = 0 \/ (2 * r - 1) * (2 * r - 1) * x.den <= 40000 * x.num * x.num)
         /\ (r = 100 \/ (2 * r + 1) * (2 * r + 1) * x.den > 40000 * x.num * x.num)
  ELSE 0 - (CHOOSE r \in 0..100 :
         /\ (r = 0 \/ (2 * r - 1) * (2 * r - 1) * x.den < 40000 * x.num * x.num)
         /\ (r = 100 \/ (2 * r + 1) * (2 * r + 1) * x.den >= 40000 * x.num * x.num))

(***************************************************************************)
(* src/lib/vector-store.ts                                                 *)
(***************************************************************************)
\* const commonWords = [...]
commonWords ==
    <<
       <<"t","h","e">>,
       <<"a","n","d">>,
       <<"o","r">>,
       <<"b","u","t">>,
       <<"i","n">>,
       <<"o","n">>,
       <<"a","t">>,
       <<"t","o">>,
       <<"f","o","r">>,
       <<"o","f">>,
       <<"w","i","t","h">>,
       <<"b","y">>,
       <<"f","r","o","m">>,
       <<"u","p">>,
       <<"a","b","o","u","t">>,
       <<"i","n","t","o">>,
       <<"t","h","r","o","u","g","h">>,
       <<"d","u","r","i","n","g">>,
       <<"b","e","f","o","r","e">>,
       <<"a","f","t","e","r">>,
       <<"a","b","o","v","e">>,
       <<"b","e","l","o","w">>,
       <<"b","e","t","w","e","e","n">>,
       <<"a","m","o","n","g">>,
       <<"w","i","t","h","i","n">>,
       <<"w","i","t","h","o","u","t">>,
       <<"u","n","d","e","r">>,
       <<"o","v","e","r">>,
       <<"a","c","r","o","s","s">>,
       <<"b","e","h","i","n","d">>,
       <<"b","e","y","o","n","d">>,
       <<"b","e","s","i","d","e">>,
       <<"d","a","t","a">>,
       <<"i","n","f","o","r","m","a","t","i","o","n">>,
       <<"s","y","s","t","e","m">>,
       <<"p","r","o","c","e","s","s">>,
       <<"m","e","t","h","o","d">>,
       <<"r","e","s","u","l","t">>,
       <<"a","n","a","l","y","s","i","s">>,
       <<"r","e","s","e","a","r","c","h">>,
       <<"s","t","u","d","y">>,
       <<"r","e","p","o","r","t">>,
       <<"d","o","c","u","m","e","n","t">>,
       <<"c","o","n","t","e","n","t">>,
       <<"t","e","x","t">>,
       <<"f","i","l","e">>,
       <<"w","e","b","s","i","t","e">>,
       <<"a","p","p","l","i","c","a","t","i","o","n">>,
       <<"s","o","f","t","w","a","r","e">>,
       <<"t","e","c","h","n","o","l","o","g","y">>,
       <<"c","o","m","p","u","t","e","r">>,
       <<"d","i","g","i","t","a","l">>,
       <<"o","n","l","i","n","e">>,
       <<"i","n","t","e","r","n","e","t">>,
       <<"w","e","b">>,
       <<"d","a","t","a","b","a","s","e">>,
       <<"a","l","g","o","r","i","t","h","m">>,
       <<"m","o","d","e","l">>,
       <<"m","a","c","h","i","n","e">>,
       <<"l","e","a","r","n","i","n","g">>,
       <<"a","r","t","i","f","i","c","i","a","l">>,
       <<"i","n","t","e","l","l","i","g","e","n","c","e">>,
       <<"n","e","u","r","a","l">>,
       <<"n","e","t","w","o","r","k">>,
       <<"d","e","e","p">>,
       <<"t","r","a","i","n","i","n","g">>,
       <<"p","r","e","d","i","c","t","i","o","n">>,
       <<"c","l","a","s","s","i","f","i","c","a","t","i","o","n">>,
       <<"f","e","a","t","u","r","e">>,
       <<"p","a","t","t","e","r","n">>,
       <<"r","e","c","o","g","n","i","t","i","o","n">>,
       <<"n","a","t","u","r","a","l">>,
       <<"l","a","n","g","u","a","g","e">>,
       <<"p","r","o","c","e","s","s","i","n","g">>,
       <<"s","e","m","a","n","t","i","c">>,
       <<"s","i","m","i","l","a","r","i","t","y">>,
       <<"v","e","c","t","o","r">>,
       <<"e","m","b","e","d","d","i","n","g">>,
       <<"r","e","t","r","i","e","v","a","l">>,
       <<"g","e","n","e","r","a","t","i","o","n">>,
       <<"q","u","e","r","y">>,
       <<"s","e","a","r","c","h">>,
       <<"i","n","d","e","x">>,
       <<"k","n","o","w","l","e","d","g","e">>,
       <<"b","a","s","e">>,
       <<"r","e","p","o","s","i","t","o","r","y">>,
       <<"s","t","o","r","a","g","e">>,
       <<"m","e","m","o","r","y">>,
       <<"c","a","c","h","e">>,
       <<"o","p","t","i","m","i","z","a","t","i","o","n">>,
       <<"p","e","r","f","o","r","m","a","n","c","e">>,
       <<"e","f","f","i","c","i","e","n","c","y">>,
       <<"a","c","c","u","r","a","c","y">>,
       <<"p","r","e","c","i","s","i","o","n">>,
       <<"r","e","c","a","l","l">>,
       <<"e","v","a","l","u","a","t","i","o","n">>,
       <<"m","e","t","r","i","c">>,
       <<"s","c","o","r","e">>,
       <<"t","h","r","e","s","h","o","l","d">>,
       <<"p","a","r","a","m","e","t","e","r">>,
       <<"c","o","n","f","i","g","u","r","a","t","i","o","n">>,
       <<"s","e","t","t","i","n","g">>,
       <<"o","p","t","i","o","n">>,
       <<"c","h","o","i","c","e">>
    >>

\* The length textToVector pads or truncates to.
VectorDimensions == 100

\* vector.slice(0, n)
slice(v, n) ==
  [v EXCEPT !.len = IF v.len < n THEN v.len ELSE n,
            !.nz = [i \in {j \in DOMAIN v.nz : j <= n} |-> v.nz[i]]]

\* while (vector.length < 100) vector.push(0).  The vocabulary has more
\* than 100 words, so the loop body never runs on a mapped vector.
padZero(v, n) == IF v.len < n THEN [v EXCEPT !.len = n] ELSE v

\* function textToVector(text): entry i is the frequency of commonWords[i]
\* among the words of the lowercased text, divided by the number of words.
textToVector(text) ==
  LET words == matchWords(toLowerCase(text))
      wordFreq(w) == Cardinality({j \in DOMAIN words : words[j] = w})
      used == {i \in DOMAIN commonWords : wordFreq(commonWords[i]) > 0}
      vector == NumberArray(Len(commonWords), Len(words),
                            [i \in used |-> wordFreq(commonWords[i])])
  IN  slice(padZero(vector, VectorDimensions), VectorDimensions)

\* a.reduce((sum, val, i) => sum + val * b[i], 0), as the fraction
\* num/den; NaN when an entry of a or b is NaN or b[i] is undefined
\* because a is the longer array.
dotProduct(a, b) ==
  IF HasNaNEntry(a) \/ (a.len > 0 /\ HasNaNEntry(b)) \/ a.len > b.len
  THEN NaN
  ELSE LET common == DOMAIN a.nz \cap DOMAIN b.nz
       IN  Num(SumOver(common, [i \in common |-> a.nz[i] * b.nz[i]]), a.den * b.den)

\* a.reduce((sum, val) => sum + val * val, 0): the squared magnitude, as
\* the fraction num/den.
sumOfSquares(a) ==
  IF HasNaNEntry(a) THEN NaN
  ELSE Num(SumOver(DOMAIN a.nz, [i \in DOMAIN a.nz |-> a.nz[i] * a.nz[i]]), a.den * a.den)

\* function cosineSimilarity(a, b), for arrays a and b:
\* dotProduct / (magnitudeA * magnitudeB).  The divisors of a and b cancel;
\* 0/0 is NaN.
cosineSimilarity(a, b) ==
  LET dot == dotProduct(a, b)
      sqA == sumOfSquares(a)
      sqB == sumOfSquares(b)
  IN  IF dot.nan \/ sqA.nan \/ sqB.nan THEN NaN
      ELSE IF sqA.num * sqB.num = 0 THEN NaN
      ELSE Num(dot.num, sqA.num * sqB.num)

\* cosineSimilarity raises a TypeError on undefined: a.reduce on an
\* undefined a, b[i] or b.reduce on an undefined b.
cosineThrows(a, b) == a.kind = "undefined" \/ b.kind = "undefined"

\* The dimension of the provider's embeddings (text-embedding-3-small).
ProviderDimensions == 1536

(***************************************************************************)
(* Inputs of the model                                                     *)
(***************************************************************************)
\* Document contents and queries.  TextDataModel has two vocabulary words,
\* TextData one; TextCats has words but none of the vocabulary (its lexical
\* vector is all zero); TextMarks has no word at all (its lexical vector is
\* all NaN); TextWebSearch has two vocabulary words, none shared with the
\* others.
TextDataModel == <<"D","a","t","a"," ","m","o","d","e","l">>

TextData == <<"d","a","t","a">>

TextCats == <<"C","a","t","s"," ","a","r","e"," ","s","m","a","l","l",".">>

TextMarks == <<"?","!">>

TextCatsAnimals ==
  <<"C","a","t","s"," ","a","r","e"," ","s","m","a","l","l"," ",
    "d","o","m","e","s","t","i","c","a","t","e","d"," ",
    "a","n","i","m","a","l","s",".">>

TextSmallPets == <<"s","m","a","l","l"," ","p","e","t","s">>

TextWebSearch == <<"w","e","b"," ","s","e","a","r","c","h">>

NameA == <<"D","o","c"," ","A">>

NameB == <<"n","o","t","e","s",".","t","x","t">>

Ids == {"1", "2"}

MetaA == [name |-> NameA, type |-> "text"]

MetaB == [name |-> NameB, type |-> "file"]

\* What the ingestion surfaces hand to addDocument: a content and its metadata.
Ingested ==
  {[content |-> TextDataModel, metadata |-> MetaA],
   [content |-> TextCats, metadata |-> MetaB]}

Queries == {TextData, TextCats}

\* The texts of the model.
Texts ==
  {TextDataModel, TextData, TextCats, TextMarks, TextWebSearch,
   TextCatsAnimals, TextSmallPets}

\* Values of topK; processRAGQuery and search default to 5.
DefaultTopK == 5

TopKs == {1, 2, DefaultTopK}

\* Embeddings the provider may answer with: number arrays of its dimension.
\* The cosine of the two is exactly 0.1.
ProviderUnit == NumberArray(ProviderDimensions, 1, (1 :> 1))

ProviderSkew == NumberArray(ProviderDimensions, 1, (1 :> 1 @@ 2 :> 9 @@ 3 :> 3 @@ 4 :> 3))

ProviderEmbeddings == {ProviderUnit, ProviderSkew}

\* What fetch('/api/embeddings') and the reading of its body can come to:
\* the fetch rejects, the status is not OK, the body is not JSON, or the
\* body is a JSON object whose embedding member is an array or is missing.
EmbeddingResponses ==
  {[rejected |-> TRUE, ok |-> FALSE, json |-> FALSE, embedding |-> Undefined],
   [rejected |-> FALSE, ok |-> FALSE, json |-> TRUE, embedding |-> Undefined],
   [rejected |-> FALSE, ok |-> TRUE, json |-> FALSE, embedding |-> Undefined],
   [rejected |-> FALSE, ok |-> TRUE, json |-> TRUE, embedding |-> Undefined]}
  \cup {[rejected |-> FALSE, ok |-> TRUE, json |-> TRUE, embedding |-> e] :
          e \in ProviderEmbeddings}

\* The response is one the try block of generateEmbedding throws on.
EmbeddingFails(response) == response.rejected \/ ~response.ok \/ ~response.json

\* async function generateEmbedding(text), given the outcome of its fetch:
\* data.embedding, or textToVector(text) from the catch block.
\* textToVector on the texts of the model, tabulated.
lexicalVector == [text \in Texts |-> textToVector(text)]

generateEmbedding(text, response) ==
  IF EmbeddingFails(response) THEN lexicalVector[text] ELSE response.embedding

(***************************************************************************)
(* class VectorStore                                                       *)
(***************************************************************************)
VARIABLES
  documents,  \* VectorStore.documents of the global vectorStore
  calls,      \* the async calls suspended at an await of a fetch
  clock,      \* the number of calls made so far
  ret,        \* the call that returned last: its arguments, locals and value
  returned,   \* the calls that have returned, in the order of their return
  page        \* the state of the RAGApplication component of src/app/page.tsx

vars == <<documents, calls, clock, ret, returned, page>>

\* The number of calls a behaviour makes.
MaxCalls == 3

NoValue == <<>>

\* A call record; the members an operation does not use keep these values.
NoCall ==
  [op |-> "none", seq |-> 0, pc |-> "returned", id |-> "", text |-> <<>>,
   metadata |-> [name |-> <<>>, type |-> "text"], topK |-> 0,
   fetches |-> 0, fallbacks |-> 0, completions |-> 0, threw |-> FALSE,
   caught |-> FALSE, queryVector |-> Undefined, results |-> <<>>,
   searchResults |-> <<>>, maxTokens |-> 0, contextWindow |-> <<>>,
   confidence |-> 0,
   value |-> NoValue]

\* What the history keeps of a call that returns.
Entry(call) == [op |-> call.op, seq |-> call.seq, id |-> call.id]

HasId(docs, id) == \E i \in DOMAIN docs : docs[i].id = id

\* this.documents.filter((doc) => doc.id !== id)
filterOutId(docs, id) ==
  LET Keep(doc) == doc.id # id IN SelectSeq(docs, Keep)

\* storeDocument with the filter left out: the push alone.
storeDocumentNoFilter(docs, vectorDoc) == Append(docs, vectorDoc)

\* storeDocument that keeps the stored document of an id already present.
storeDocumentKeepsOld(docs, vectorDoc) ==
  IF \E i \in DOMAIN docs : docs[i].id = vectorDoc.id THEN docs ELSE Append(docs, vectorDoc)

\* addDocument after its await: the filter and the push.
storeDocument(docs, vectorDoc) == Append(filterOutId(docs, vectorDoc.id), vectorDoc)

\* removeDocument: the filter, and the value returned.
removeFromStore(docs, id) == filterOutId(docs, id)

\* removeDocumentResult with <= for <.
removeDocumentResultLeq(before, after) == Len(after) <= Len(before)

removeDocumentResult(before, after) == Len(after) < Len(before)

\* searchReturnsEarly with the early return left out.
searchNeverReturnsEarly(docs) == FALSE

\* search: if (this.documents.length === 0) return [];
searchReturnsEarly(docs) == Len(docs) = 0

\* The number of fallback vectorizations a resolved generateEmbedding made.
FallbacksOf(response) == IF EmbeddingFails(response) THEN 1 ELSE 0

\* async addDocument(id, content, metadata) up to its await: the call is
\* suspended on the fetch of generateEmbedding(content).
addDocumentCall(id, content, metadata) ==
  /\ clock < MaxCalls
  /\ clock' = clock + 1
  /\ calls' = calls \cup
       {[NoCall EXCEPT !.op = "addDocument", !.seq = clock + 1,
                       !.pc = "generateEmbedding", !.id = id, !.text = content,
                       !.metadata = metadata, !.fetches = 1]}
  /\ UNCHANGED <<documents, ret, returned>>

\* addDocument from the await on: the embedding arrives, the document
\* replaces the one of its id, and the call returns the stored document.
addDocumentResume(call, response) ==
  /\ call \in calls
  /\ call.op = "addDocument"
  /\ LET embedding == generateEmbedding(call.text, response)
         vectorDoc == [id |-> call.id, content |-> call.text,
                       embedding |-> embedding, metadata |-> call.metadata]
     IN  /\ documents' = storeDocument(documents, vectorDoc)
         /\ ret' = [call EXCEPT !.pc = "returned", !.value = vectorDoc,
                                !.fallbacks = FallbacksOf(response)]
  /\ calls' = calls \ {call}
  /\ returned' = Append(returned, Entry(call))
  /\ UNCHANGED clock

\* removeDocument(id): synchronous.
removeDocument(id) ==
  /\ clock < MaxCalls
  /\ clock' = clock + 1
  /\ documents' = removeFromStore(documents, id)
  /\ ret' = [NoCall EXCEPT !.op = "removeDocument", !.seq = clock + 1, !.id = id,
                           !.value = removeDocumentResult(documents, documents')]
  /\ returned' = Append(returned, Entry(ret'))
  /\ UNCHANGED calls

\* The comparator (a, b) => b.similarity - a.similarity, as the sign sort
\* sees: Array.prototype.sort reads a NaN from the comparator as +0.
compareBySimilarity(a, b) ==
  IF a.similarity.nan \/ b.similarity.nan THEN 0
  ELSE IF NumLess(b.similarity, a.similarity) THEN -1
  ELSE IF NumLess(a.similarity, b.similarity) THEN 1
  ELSE 0

\* ECMAScript's "consistent comparator" for the elements of an array: the
\* relations <, = and > the comparator induces are transitive (they are
\* antisymmetric by the form of compareBySimilarity).
IsConsistentComparator(arr) ==
  \A i, j, k \in DOMAIN arr :
    LET ij == compareBySimilarity(arr[i], arr[j])
        jk == compareBySimilarity(arr[j], arr[k])
        ik == compareBySimilarity(arr[i], arr[k])
    IN  /\ (ij = 0 /\ jk = 0) => ik = 0
        /\ (ij < 0 /\ jk < 0) => ik < 0
        /\ (ij > 0 /\ jk > 0) => ik > 0

\* A stable sort under a consistent comparator: insert each element after
\* the elements that do not compare greater than it.
RECURSIVE insertSorted(_, _)
insertSorted(sorted, x) ==
  IF sorted = <<>> THEN <<x>>
  ELSE IF compareBySimilarity(sorted[1], x) > 0
       THEN <<x>> \o sorted
       ELSE <<sorted[1]>> \o insertSorted(Tail(sorted), x)

RECURSIVE stableSort(_)
stableSort(arr) ==
  IF arr = <<>> THEN <<>>
  ELSE insertSorted(stableSort(SubSeq(arr, 1, Len(arr) - 1)), arr[Len(arr)])

Reorderings(arr) ==
  {[i \in DOMAIN arr |-> arr[p[i]]] :
     p \in {q \in [DOMAIN arr -> DOMAIN arr] :
              \A i, j \in DOMAIN arr : q[i] = q[j] => i = j}}

\* arr.sort((a, b) => b.similarity - a.similarity): the array sort may
\* leave.  The sort is stable under a consistent comparator; under an
\* inconsistent one (a NaN similarity beside two different numbers) the
\* order is implementation-defined, so every order is possible.
sortBySimilarity(arr) ==
  IF IsConsistentComparator(arr) THEN {stableSort(arr)} ELSE Reorderings(arr)

\* arr.slice(0, topK), for topK >= 0
firstK(arr, topK) == SubSeq(arr, 1, IF topK < Len(arr) THEN topK ELSE Len(arr))

\* The filter with the cutoff at 0: result.similarity >= 0
aboveCutoffAtZero(arr) ==
  LET Keep(result) == ~result.similarity.nan /\ result.similarity.num >= 0
  IN  SelectSeq(arr, Keep)

\* arr.filter((result) => result.similarity > 0.1)
aboveCutoff(arr) ==
  LET Keep(result) == GreaterThanCutoff(result.similarity) IN SelectSeq(arr, Keep)

\* this.documents.map((doc) => ({document: doc, similarity: ...}))
scoreDocuments(docs, queryVector) ==
  [i \in DOMAIN docs |->
     [document |-> docs[i],
      similarity |-> cosineSimilarity(queryVector, docs[i].embedding)]]

\* The map of search throws when cosineSimilarity does on some document.
scoringThrows(docs, queryVector) ==
  \E i \in DOMAIN docs : cosineThrows(queryVector, docs[i].embedding)

\* search from its await on: the outcomes of scoring, sorting, slicing and
\* filtering the documents the store holds when the embedding arrives.
searchOutcomes(docs, queryVector, topK) ==
  IF scoringThrows(docs, queryVector)
  THEN {[threw |-> TRUE, results |-> <<>>, value |-> <<>>]}
  ELSE LET results == scoreDocuments(docs, queryVector)
       IN  {[threw |-> FALSE, results |-> results,
             value |-> aboveCutoff(firstK(sorted, topK))] :
              sorted \in sortBySimilarity(results)}

\* async search(query, topK) up to its await: the empty store answers []
\* at once, otherwise the call is suspended on generateEmbedding(query).
searchCall(query, topK) ==
  /\ clock < MaxCalls
  /\ clock' = clock + 1
  /\ LET call == [NoCall EXCEPT !.op = "search", !.seq = clock + 1,
                                !.text = query, !.topK = topK]
     IN  IF searchReturnsEarly(documents)
         THEN /\ ret' = [call EXCEPT !.value = <<>>]
              /\ returned' = Append(returned, Entry(call))
              /\ UNCHANGED calls
         ELSE /\ calls' = calls \cup
                   {[call EXCEPT !.pc = "generateEmbedding", !.fetches = 1]}
              /\ UNCHANGED <<ret, returned>>
  /\ UNCHANGED documents

\* search from its await on.
searchResume(call, response) ==
  /\ call \in calls
  /\ call.op = "search"
  /\ LET queryVector == generateEmbedding(call.text, response)
     IN  \E out \in searchOutcomes(documents, queryVector, call.topK) :
           ret' = [call EXCEPT !.pc = "returned", !.queryVector = queryVector,
                               !.fallbacks = FallbacksOf(response),
                               !.threw = out.threw, !.results = out.results,
                               !.value = out.value]
  /\ calls' = calls \ {call}
  /\ returned' = Append(returned, Entry(call))
  /\ UNCHANGED <<documents, clock>>

\* `return this.documents`: the caller gets the array of the store.
spreadDocumentsShared(docs) == [shared |-> TRUE, array |-> docs]

\* `return [...this.documents]`: a new array of the same documents.
spreadDocuments(docs) == [shared |-> FALSE, array |-> docs]

\* getAllDocuments()
getAllDocuments ==
  /\ clock < MaxCalls
  /\ clock' = clock + 1
  /\ ret' = [NoCall EXCEPT !.op = "getAllDocuments", !.seq = clock + 1,
                           !.value = spreadDocuments(documents)]
  /\ returned' = Append(returned, Entry(ret'))
  /\ UNCHANGED <<documents, calls>>

\* The caller of getAllDocuments mutates the array it got, here with
\* shift(): the store changes with it when the array is the store's own.
shiftReturnedArray ==
  /\ ret.op = "getAllDocuments"
  /\ ret.value.array # <<>>
  /\ ret' = [ret EXCEPT !.value.array = Tail(@)]
  /\ documents' = IF ret.value.shared THEN Tail(ret.value.array) ELSE documents
  /\ UNCHANGED <<calls, clock, returned>>

\* getDocumentCount()
getDocumentCount ==
  /\ clock < MaxCalls
  /\ clock' = clock + 1
  /\ ret' = [NoCall EXCEPT !.op = "getDocumentCount", !.seq = clock + 1,
                           !.value = Len(documents)]
  /\ returned' = Append(returned, Entry(ret'))
  /\ UNCHANGED <<documents, calls>>

\* The reduce of getStats: the \b\w+\b matches of all contents.
totalTokens(docs) ==
  SumOver(DOMAIN docs, [i \in DOMAIN docs |-> Len(matchWords(docs[i].content))])

\* Math.round(total / count) for count > 0
averageTokensPerDoc(total, count) == (2 * total + count) \div (2 * count)

\* getStats(): the statistics, or the TypeError of reading .length of an
\* embedding that is undefined.
getStats ==
  /\ clock < MaxCalls
  /\ clock' = clock + 1
  /\ LET count == Len(documents)
         total == totalTokens(documents)
         call == [NoCall EXCEPT !.op = "getStats", !.seq = clock + 1]
     IN  IF count > 0 /\ documents[1].embedding.kind = "undefined"
         THEN ret' = [call EXCEPT !.threw = TRUE]
         ELSE ret' = [call EXCEPT !.value =
                        [documentCount |-> count,
                         totalTokens |-> total,
                         averageTokensPerDoc |->
                           IF count > 0 THEN averageTokensPerDoc(total, count) ELSE 0,
                         vectorDimensions |->
                           IF count > 0 THEN documents[1].embedding.len
                           ELSE ProviderDimensions]]
  /\ returned' = Append(returned, Entry(ret'))
  /\ UNCHANGED <<documents, calls>>

(***************************************************************************)
(* src/lib/rag-pipeline.ts                                                 *)
(***************************************************************************)
\* buildContext: maxTokens = 2000, and the remaining budget a partial
\* document needs.
DefaultMaxTokens == 2000

PartialMinimum == 50

\* String(n) for the value of Math.round: an integer, or NaN.
numberToString(n) ==
  IF n < 0 THEN <<"-">> \o NatToString(0 - n) ELSE NatToString(n)

roundedPercentString(similarity) ==
  IF similarity.nan THEN <<"N","a","N">> ELSE numberToString(RoundPercent(similarity))

\* `\n--- From "${name}" (${Math.round(similarity * 100)}% relevant) ---\n`
provenanceHeader(result) ==
  <<"\n","-","-","-"," ","F","r","o","m"," ","\"">> \o result.document.metadata.name \o <<"\""," ","(">>
  \o roundedPercentString(result.similarity) \o <<"%"," ","r","e","l","e","v","a","n","t",")"," ","-","-","-","\n">>

\* The for loop of buildContext from result i on, with the context and
\* the token count built so far.
RECURSIVE buildContextFrom(_, _, _, _, _)
buildContextFrom(sortedResults, i, context, tokenCount, maxTokens) ==
  IF i > Len(sortedResults) THEN context
  ELSE LET result == sortedResults[i]
           docContent == result.document.content
           pieces == splitWhitespace(docContent)
           docTokens == Len(pieces)
           remainingTokens == maxTokens - tokenCount
       IN  IF tokenCount + docTokens <= maxTokens
           THEN buildContextFrom(sortedResults, i + 1,
                  context \o provenanceHeader(result) \o docContent \o <<"\n">>,
                  tokenCount + docTokens, maxTokens)
           ELSE IF remainingTokens > PartialMinimum
                THEN context \o provenanceHeader(result)
                     \o join(SubSeq(pieces, 1, remainingTokens), <<" ">>)
                     \o <<".",".",".">> \o <<"\n">>
                ELSE context

\* function buildContext(searchResults, query, maxTokens), given the array
\* its in-place sort leaves; query is not read.
buildContext(sortedResults, maxTokens) ==
  IF Len(sortedResults) = 0 THEN <<>>
  ELSE trim(buildContextFrom(sortedResults, 1, <<>>, 0, maxTokens))

\* Math.round(mean * 100) for the mean of positive similarities.  Each
\* similarity num/sqrt(den) is enclosed between two multiples of
\* 1/Precision; the rounding is the one both ends of the enclosure of the
\* mean agree on (the model's inputs keep means away from the half-way
\* points by more than the enclosure's width).
Precision == 10000

RECURSIVE Gcd(_, _)
Gcd(a, b) == IF b = 0 THEN a ELSE Gcd(b, a % b)

RECURSIVE IsqrtBetween(_, _, _)
IsqrtBetween(x, lo, hi) ==
  IF lo >= hi THEN lo
  ELSE LET mid == (lo + hi + 1) \div 2
       IN  IF mid * mid <= x THEN IsqrtBetween(x, mid, hi)
           ELSE IsqrtBetween(x, lo, mid - 1)

Isqrt(x) == IsqrtBetween(x, 0, IF x < 46340 THEN x ELSE 46340)

\* floor(Precision * num/sqrt(den)) and whether it is exact, for num >= 0.
Enclose(x) ==
  LET g == Gcd(x.num * x.num, x.den)
      p == (x.num * x.num) \div g
      q == x.den \div g
      scaled == (Precision * Precision * p) \div q
      low == Isqrt(scaled)
  IN  [low |-> low,
       high |-> IF low * low * q = Precision * Precision * p THEN low ELSE low + 1]

RECURSIVE SumSeq(_)
SumSeq(xs) == IF xs = <<>> THEN 0 ELSE xs[1] + SumSeq(Tail(xs))

\* Math.round((sum of the similarities / length) * 100)
roundedMeanPercent(results) ==
  LET n == Len(results)
      ends == [i \in DOMAIN results |-> Enclose(results[i].similarity)]
      low == SumSeq([i \in DOMAIN results |-> ends[i].low])
      high == SumSeq([i \in DOMAIN results |-> ends[i].high])
      RoundAt(sum) == (200 * sum + Precision * n) \div (2 * Precision * n)
  IN  CHOOSE r \in 0..100 : r = RoundAt(low) /\ r = RoundAt(high)

\* The confidence with Math.floor in the place of Math.round.
confidenceOfFloored(searchResults) ==
  IF Len(searchResults) > 0
  THEN LET ends == [i \in DOMAIN searchResults |-> Enclose(searchResults[i].similarity)]
           low == SumSeq([i \in DOMAIN searchResults |-> ends[i].low])
       IN  (100 * low) \div (Precision * Len(searchResults))
  ELSE 0

\* processRAGQuery, step 3: the confidence score.
confidenceOf(searchResults) ==
  IF Len(searchResults) > 0 THEN roundedMeanPercent(searchResults) ELSE 0

\* The answers of generateAnswer and processRAGQuery: the template and
\* the values it interpolates.
NoAnswer == [template |-> "", query |-> <<>>, count |-> 0, percent |-> 0, text |-> <<>>]

\* `I don't have enough information ... to answer "${query}". ...`
insufficientAnswer(query) ==
  [NoAnswer EXCEPT !.template = "insufficient information", !.query = query]

\* data.answer of the completion provider
providerAnswer(text) == [NoAnswer EXCEPT !.template = "provider", !.text = text]

\* 'I was unable to generate a response. Please try again.'
unableAnswer == [NoAnswer EXCEPT !.template = "unable to generate"]

\* The catch block of generateAnswer: the extractive answer, with the
\* source count and the rounded mean similarity of its trailer.
extractiveAnswer(query, sources) ==
  [NoAnswer EXCEPT !.template = "extractive", !.query = query,
                   !.count = Len(sources), !.percent = roundedMeanPercent(sources)]

\* 'I encountered an error while processing your query. ...'
errorAnswer == [NoAnswer EXCEPT !.template = "encountered an error"]

ProviderText == <<"A","n","s","w","e","r">>

\* What fetch('/api/chat') and the reading of its body can come to: the
\* fetch rejects, the status is not OK, the body is not JSON, or the body
\* is a JSON object with an answer or with none.
ChatResponses ==
  {[rejected |-> TRUE, ok |-> FALSE, json |-> FALSE, answer |-> <<>>],
   [rejected |-> FALSE, ok |-> FALSE, json |-> TRUE, answer |-> <<>>],
   [rejected |-> FALSE, ok |-> TRUE, json |-> FALSE, answer |-> <<>>],
   [rejected |-> FALSE, ok |-> TRUE, json |-> TRUE, answer |-> <<>>],
   [rejected |-> FALSE, ok |-> TRUE, json |-> TRUE, answer |-> ProviderText]}

\* The test of generateAnswer without its !context.
answersWithoutProviderSourcesOnly(context, sources) == Len(sources) = 0

\* generateAnswer: if (!context || sources.length === 0)
\* The same without the early return: the provider is asked every time.
answersWithoutProviderNever(context, sources) == FALSE

answersWithoutProvider(context, sources) == context = <<>> \/ Len(sources) = 0

\* answerFromResponse with the failure of the provider for its answer,
\* as generateAnswer without its try and catch would leave it.
answerFromResponseUncaught(query, sources, response) ==
  IF response.rejected \/ ~response.ok \/ ~response.json
  THEN [NoAnswer EXCEPT !.template = "rejected"]
  ELSE IF response.answer # <<>> THEN providerAnswer(response.answer)
  ELSE unableAnswer

\* generateAnswer from its await on: data.answer || 'I was unable ...',
\* or the extractive answer of the catch block.
answerFromResponse(query, sources, response) ==
  IF response.rejected \/ ~response.ok \/ ~response.json
  THEN extractiveAnswer(query, sources)
  ELSE IF response.answer # <<>> THEN providerAnswer(response.answer)
  ELSE unableAnswer

\* The RAGResponse; processingTime, a difference of two clock readings, is
\* left out.
RAGResponse(answer, query, searchResults, contextWindow, confidence) ==
  [answer |-> answer,
   context |-> [query |-> query, retrievedDocuments |-> searchResults,
                contextWindow |-> contextWindow, confidence |-> confidence],
   sources |-> searchResults]

\* The catch block of processRAGQuery with a throw for its return.
rethrowPipelineError(query) ==
  [threw |-> TRUE, value |-> NoValue]

\* The catch block of processRAGQuery: the call resolves to the error
\* response.
catchPipelineError(query) ==
  [threw |-> FALSE, value |-> RAGResponse(errorAnswer, query, <<>>, <<>>, 0)]

\* processRAGQuery from the value of search to the await of generateAnswer:
\* buildContext sorts searchResults in place, then the confidence; the
\* call either returns the answer generateAnswer gives without its
\* provider or is suspended on fetch('/api/chat').  pending holds the
\* suspended call this step resumes, if any.
ragAfterSearch(pending, call, searchResults) ==
  \E sorted \in sortBySimilarity(searchResults) :
    LET contextWindow == buildContext(sorted, DefaultMaxTokens)
        confidence == confidenceOf(sorted)
        next == [call EXCEPT !.searchResults = sorted,
                             !.maxTokens = DefaultMaxTokens,
                             !.contextWindow = contextWindow,
                             !.confidence = confidence]
    IN  IF answersWithoutProvider(contextWindow, sorted)
        THEN /\ ret' = [next EXCEPT !.pc = "returned",
                          !.value = RAGResponse(insufficientAnswer(call.text), call.text,
                                                sorted, contextWindow, confidence)]
             /\ returned' = Append(returned, Entry(call))
             /\ calls' = calls \ pending
        ELSE /\ calls' = (calls \ pending) \cup
                  {[next EXCEPT !.pc = "generateAnswer", !.completions = 1]}
             /\ UNCHANGED <<ret, returned>>

\* async processRAGQuery(query, topK) up to its first await of a fetch:
\* on the empty store search answers [] at once and the call runs to its
\* return; otherwise it is suspended in search on generateEmbedding(query).
processRAGQueryCall(query, topK) ==
  /\ clock < MaxCalls
  /\ clock' = clock + 1
  /\ LET call == [NoCall EXCEPT !.op = "processRAGQuery", !.seq = clock + 1,
                                !.text = query, !.topK = topK]
     IN  IF searchReturnsEarly(documents)
         THEN ragAfterSearch({}, call, <<>>)
         ELSE /\ calls' = calls \cup
                   {[call EXCEPT !.pc = "generateEmbedding", !.fetches = 1]}
              /\ UNCHANGED <<ret, returned>>
  /\ UNCHANGED documents

\* processRAGQuery when the embedding of its search arrives: search
\* returns or throws; a throw is caught and answered by the catch block.
processRAGQuerySearched(call, response) ==
  /\ call \in calls
  /\ call.op = "processRAGQuery" /\ call.pc = "generateEmbedding"
  /\ LET queryVector == generateEmbedding(call.text, response)
         searched == [call EXCEPT !.queryVector = queryVector,
                                  !.fallbacks = FallbacksOf(response)]
     IN  \E out \in searchOutcomes(documents, queryVector, call.topK) :
           IF out.threw
           THEN LET caught == catchPipelineError(call.text)
                IN  /\ ret' = [searched EXCEPT !.pc = "returned", !.caught = TRUE,
                                 !.threw = caught.threw, !.value = caught.value]
                    /\ returned' = Append(returned, Entry(call))
                    /\ calls' = calls \ {call}
           ELSE ragAfterSearch({call}, [searched EXCEPT !.results = out.results], out.value)
  /\ UNCHANGED <<documents, clock>>

\* processRAGQuery when the completion request of generateAnswer settles.
processRAGQueryAnswered(call, response) ==
  /\ call \in calls
  /\ call.op = "processRAGQuery" /\ call.pc = "generateAnswer"
  /\ ret' = [call EXCEPT !.pc = "returned",
               !.value = RAGResponse(
                  answerFromResponse(call.text, call.searchResults, response),
                  call.text, call.searchResults, call.contextWindow, call.confidence)]
  /\ returned' = Append(returned, Entry(call))
  /\ calls' = calls \ {call}
  /\ UNCHANGED <<documents, clock>>

\* preprocessQuery: stopWords
stopWords ==
  {<<"t","h","e">>, <<"a">>, <<"a","n">>, <<"a","n","d">>, <<"o","r">>,
   <<"b","u","t">>, <<"i","n">>, <<"o","n">>, <<"a","t">>, <<"t","o">>,
   <<"f","o","r">>, <<"o","f">>, <<"w","i","t","h">>, <<"b","y">>,
   <<"f","r","o","m">>, <<"u","p">>, <<"a","b","o","u","t">>,
   <<"i","n","t","o">>, <<"t","h","r","o","u","g","h">>,
   <<"d","u","r","i","n","g">>, <<"b","e","f","o","r","e">>,
   <<"a","f","t","e","r">>, <<"a","b","o","v","e">>,
   <<"b","e","l","o","w">>, <<"b","e","t","w","e","e","n">>,
   <<"a","m","o","n","g">>, <<"w","i","t","h","i","n">>,
   <<"w","i","t","h","o","u","t">>, <<"u","n","d","e","r">>,
   <<"o","v","e","r">>, <<"a","c","r","o","s","s">>,
   <<"b","e","h","i","n","d">>, <<"b","e","y","o","n","d">>,
   <<"b","e","s","i","d","e">>}

\* .replace(/[^\w\s]/g, ' ')
replacePunctuation(s) ==
  [i \in DOMAIN s |-> IF IsWordChar(s[i]) \/ IsSpace(s[i]) THEN s[i] ELSE " "]

\* The test of the filter with >= 2 for > 2.
keepsWordOfTwo(word) == Len(word) >= 2 /\ word \notin stopWords

\* .filter((word) => word.length > 2 && !stopWords.has(word))
keepsWord(word) == Len(word) > 2 /\ word \notin stopWords

filterWords(words) ==
  LET Keep(word) == keepsWord(word) IN SelectSeq(words, Keep)

\* export function preprocessQuery(query)
preprocessQuery(query) ==
  trim(join(filterWords(splitWhitespace(replacePunctuation(toLowerCase(query)))),
            <<" ">>))

\* expandQuery: synonymMap, its properties in the order of the literal.
synonymEntries ==
  <<[key |-> <<"d","a","t","a">>,
    synonyms |-> <<<<"i","n","f","o","r","m","a","t","i","o","n">>,
                  <<"c","o","n","t","e","n","t">>,
                  <<"f","a","c","t","s">>>>],
   [key |-> <<"a","n","a","l","y","s","i","s">>,
    synonyms |-> <<<<"e","x","a","m","i","n","a","t","i","o","n">>,
                  <<"s","t","u","d","y">>,
                  <<"r","e","s","e","a","r","c","h">>>>],
   [key |-> <<"s","y","s","t","e","m">>,
    synonyms |-> <<<<"p","l","a","t","f","o","r","m">>,
                  <<"a","p","p","l","i","c","a","t","i","o","n">>,
                  <<"s","o","f","t","w","a","r","e">>>>],
   [key |-> <<"p","r","o","c","e","s","s">>,
    synonyms |-> <<<<"m","e","t","h","o","d">>,
                  <<"p","r","o","c","e","d","u","r","e">>,
                  <<"w","o","r","k","f","l","o","w">>>>],
   [key |-> <<"r","e","s","u","l","t">>,
    synonyms |-> <<<<"o","u","t","c","o","m","e">>,
                  <<"f","i","n","d","i","n","g">>,
                  <<"c","o","n","c","l","u","s","i","o","n">>>>],
   [key |-> <<"d","o","c","u","m","e","n","t">>,
    synonyms |-> <<<<"f","i","l","e">>,
                  <<"t","e","x","t">>,
                  <<"c","o","n","t","e","n","t">>>>],
   [key |-> <<"s","e","a","r","c","h">>,
    synonyms |-> <<<<"f","i","n","d">>,
                  <<"l","o","c","a","t","e">>,
                  <<"r","e","t","r","i","e","v","e">>>>],
   [key |-> <<"i","n","f","o","r","m","a","t","i","o","n">>,
    synonyms |-> <<<<"d","a","t","a">>,
                  <<"c","o","n","t","e","n","t">>,
                  <<"d","e","t","a","i","l","s">>>>]>>

synonymKeys == {synonymEntries[i].key : i \in DOMAIN synonymEntries}

\* synonymMap[word] of a key
synonymsOf(word) ==
  synonymEntries[CHOOSE i \in DOMAIN synonymEntries : synonymEntries[i].key = word].synonyms

\* The lowercase names synonymMap inherits from Object.prototype:
\* synonymMap[word] is truthy for them and has no forEach.
inheritedNames ==
  {<<"c","o","n","s","t","r","u","c","t","o","r">>,
   <<"_","_","p","r","o","t","o","_","_">>}

\* The first index at which pattern occurs in s, or 0.
indexOf(s, pattern) ==
  LET places == {i \in 1..(Len(s) - Len(pattern) + 1) :
                   SubSeq(s, i, i + Len(pattern) - 1) = pattern}
  IN  IF places = {} THEN 0 ELSE CHOOSE i \in places : \A j \in places : i <= j

\* s.replace(pattern, replacement) for a string pattern and a replacement
\* without $: the first occurrence is replaced.
replaceFirst(s, pattern, replacement) ==
  LET at == indexOf(s, pattern)
  IN  IF at = 0 THEN s
      ELSE SubSeq(s, 1, at - 1) \o replacement \o SubSeq(s, at + Len(pattern), Len(s))

includes(expansions, text) == \E i \in DOMAIN expansions : expansions[i] = text

\* synonymMap[word].forEach(...): the variants of one word, pushed when
\* not yet included.
RECURSIVE pushVariants(_, _, _, _)
pushVariants(expansions, baseQuery, word, synonyms) ==
  IF synonyms = <<>> THEN expansions
  ELSE LET expandedQuery == replaceFirst(baseQuery, word, synonyms[1])
       IN  pushVariants(IF includes(expansions, expandedQuery) THEN expansions
                        ELSE Append(expansions, expandedQuery),
                        baseQuery, word, Tail(synonyms))

\* words.forEach(...)
RECURSIVE pushWords(_, _, _)
pushWords(expansions, baseQuery, words) ==
  IF words = <<>> THEN expansions
  ELSE pushWords(IF words[1] \in synonymKeys
                 THEN pushVariants(expansions, baseQuery, words[1], synonymsOf(words[1]))
                 ELSE expansions,
                 baseQuery, Tail(words))

\* export function expandQuery(query): the expansions, or the TypeError of
\* forEach on an inherited property.
expandQuery(query) ==
  LET baseQuery == preprocessQuery(query)
      words == splitWhitespace(baseQuery)
  IN  IF \E i \in DOMAIN words : words[i] \in inheritedNames
      THEN [threw |-> TRUE, value |-> <<>>]
      ELSE [threw |-> FALSE, value |-> pushWords(<<baseQuery>>, baseQuery, words)]

\* A call of preprocessQuery(query).
preprocessQueryCall(query) ==
  /\ clock < MaxCalls
  /\ clock' = clock + 1
  /\ ret' = [NoCall EXCEPT !.op = "preprocessQuery", !.seq = clock + 1,
                           !.pc = "returned", !.text = query,
                           !.value = preprocessQuery(query)]
  /\ returned' = Append(returned, Entry(ret'))
  /\ UNCHANGED <<documents, calls>>

\* A call of expandQuery(query).
expandQueryCall(query) ==
  /\ clock < MaxCalls
  /\ clock' = clock + 1
  /\ LET out == expandQuery(query)
     IN  ret' = [NoCall EXCEPT !.op = "expandQuery", !.seq = clock + 1,
                              !.pc = "returned", !.text = query,
                              !.threw = out.threw, !.value = out.value]
  /\ returned' = Append(returned, Entry(ret'))
  /\ UNCHANGED <<documents, calls>>

\* async generateAnswer(query, context, sources) up to its await: the
\* insufficient-information answer at once, or the call suspended on
\* fetch('/api/chat').
generateAnswerCall(query, context, sources) ==
  /\ clock < MaxCalls
  /\ clock' = clock + 1
  /\ LET call == [NoCall EXCEPT !.op = "generateAnswer", !.seq = clock + 1,
                                !.text = query, !.contextWindow = context,
                                !.searchResults = sources]
     IN  IF answersWithoutProvider(context, sources)
         THEN /\ ret' = [call EXCEPT !.pc = "returned",
                                     !.value = insufficientAnswer(query)]
              /\ returned' = Append(returned, Entry(call))
              /\ UNCHANGED calls
         ELSE /\ calls' = calls \cup
                   {[call EXCEPT !.pc = "fetch", !.completions = 1]}
              /\ UNCHANGED <<ret, returned>>
  /\ UNCHANGED documents

\* generateAnswer from its await on.
generateAnswerResume(call, response) ==
  /\ call \in calls
  /\ call.op = "generateAnswer"
  /\ ret' = [call EXCEPT !.pc = "returned",
               !.value = answerFromResponse(call.text, call.searchResults, response)]
  /\ returned' = Append(returned, Entry(call))
  /\ calls' = calls \ {call}
  /\ UNCHANGED <<documents, clock>>

(***************************************************************************)
(* src/app/page.tsx: the state of RAGApplication                           *)
(***************************************************************************)
\* The useState values the handlers read and write; pending holds, for
\* each call a handler awaits (or has left running), the handler and the
\* Document it made; now is the last reading of Date.now().
NoPage ==
  [documents |-> <<>>, textInput |-> <<>>, chatInput |-> <<>>,
   isChatProcessing |-> FALSE, messages |-> <<>>, pending |-> {}, now |-> 0]

\* A reading of Date.now(): not below the last one.  The readings a
\* behaviour needs are no more than the calls it makes.
Readings == {t \in 1..MaxCalls : t >= page.now}

\* `Text Document ${documents.length + 1}`
textDocumentName(n) ==
  <<"T","e","x","t"," ","D","o","c","u","m","e","n","t"," ">> \o NatToString(n)

\* The entry of pending for the call the step makes.
Pending(handler, doc) == [seq |-> clock + 1, handler |-> handler, doc |-> doc]

NoDocument == [id |-> "", name |-> <<>>, type |-> "text", content |-> <<>>]

PendingOf(call) == {entry \in page.pending : entry.seq = call.seq}

Message(role, content, answer) == [role |-> role, content |-> content, answer |-> answer]

\* onChange of the text area: setTextInput(e.target.value)
setTextInput(text) ==
  /\ page' = [page EXCEPT !.textInput = text]
  /\ UNCHANGED <<documents, calls, clock, ret, returned>>

\* onChange of the chat input, which is disabled while the page lists no
\* document or a chat is processed: setChatInput(e.target.value)
setChatInput(text) ==
  /\ Len(page.documents) > 0 /\ ~page.isChatProcessing
  /\ page' = [page EXCEPT !.chatInput = text]
  /\ UNCHANGED <<documents, calls, clock, ret, returned>>

\* addTextDocument up to its await of vectorStore.addDocument; its button
\* is never disabled.
addTextDocument(now) ==
  /\ trim(page.textInput) # <<>>
  /\ LET newDoc == [id |-> NatToString(now),
                    name |-> textDocumentName(Len(page.documents) + 1),
                    type |-> "text", content |-> page.textInput]
     IN  /\ addDocumentCall(newDoc.id, newDoc.content,
                            [name |-> newDoc.name, type |-> newDoc.type])
         /\ page' = [page EXCEPT !.now = now,
                       !.pending = @ \cup {Pending("addTextDocument", newDoc)}]

\* addTextDocument from its await on: setDocuments((prev) => [...prev,
\* newDoc]) and setTextInput('').
addTextDocumentResume(call, response) ==
  /\ \E entry \in PendingOf(call) :
       /\ entry.handler = "addTextDocument"
       /\ page' = [page EXCEPT !.documents = Append(@, entry.doc),
                               !.textInput = <<>>,
                               !.pending = @ \ {entry}]
  /\ addDocumentResume(call, response)

\* updateDocument(id, name, content): vectorStore.addDocument is called
\* and not awaited, and the list of the page is updated at once.
updateDocument(id, name, content) ==
  /\ LET Matches(doc) == doc.id = id
         found == SelectSeq(page.documents, Matches)
     IN  IF found # <<>>
         THEN /\ addDocumentCall(id, content, [name |-> name, type |-> found[1].type])
              /\ page' = [page EXCEPT
                   !.documents = [i \in DOMAIN @ |->
                      IF @[i].id = id THEN [@[i] EXCEPT !.name = name, !.content = content]
                      ELSE @[i]],
                   !.pending = @ \cup {Pending("updateDocument", NoDocument)}]
         ELSE /\ UNCHANGED <<documents, calls, clock, ret, returned, page>>

\* The addDocument call of updateDocument completes; nothing awaits it.
updateDocumentResume(call, response) ==
  /\ \E entry \in PendingOf(call) :
       /\ entry.handler = "updateDocument"
       /\ page' = [page EXCEPT !.pending = @ \ {entry}]
  /\ addDocumentResume(call, response)

\* removeDocument(id) of the page: vectorStore.removeDocument(id) and
\* setDocuments((prev) => prev.filter((doc) => doc.id !== id)).
pageRemoveDocument(id) ==
  /\ removeDocument(id)
  /\ page' = [page EXCEPT !.documents = filterOutId(@, id)]

\* chatAnswered without the finally block.
chatAnsweredNoFinally(state, response) ==
  [state EXCEPT !.messages = Append(@, Message("assistant", <<>>, response.answer))]

\* The page after the await of handleChat: the assistant message, and the
\* finally block.
chatAnswered(state, response) ==
  [state EXCEPT !.messages = Append(@, Message("assistant", <<>>, response.answer)),
                !.isChatProcessing = FALSE]

\* handleChat up to its await of processRAGQuery(query, 5).  The Send
\* button and the Enter key start it only while the page lists a document
\* and isChatProcessing is false.
handleChat ==
  /\ Len(page.documents) > 0 /\ ~page.isChatProcessing
  /\ trim(page.chatInput) # <<>>
  /\ processRAGQueryCall(page.chatInput, DefaultTopK)
  /\ LET asked == [page EXCEPT
                     !.messages = Append(@, Message("user", page.chatInput, NoAnswer)),
                     !.chatInput = <<>>,
                     !.isChatProcessing = TRUE]
     IN  IF ret'.pc = "returned" /\ ret'.seq = clock + 1
         THEN page' = chatAnswered(asked, ret'.value)
         ELSE page' = [asked EXCEPT !.pending = @ \cup {Pending("handleChat", NoDocument)}]

\* The page when a step of the awaited processRAGQuery call has been
\* taken: handleChat goes on if the call has returned.
handleChatAwait(call) ==
  \E entry \in PendingOf(call) :
    /\ entry.handler = "handleChat"
    /\ IF ret'.pc = "returned" /\ ret'.seq = call.seq
       THEN page' = chatAnswered([page EXCEPT !.pending = @ \ {entry}], ret'.value)
       ELSE UNCHANGED page

\* The search of the awaited processRAGQuery resolves or throws.
handleChatSearched(call, response) ==
  /\ processRAGQuerySearched(call, response)
  /\ handleChatAwait(call)

\* The completion request of the awaited processRAGQuery settles.
handleChatAnswered(call, response) ==
  /\ processRAGQueryAnswered(call, response)
  /\ handleChatAwait([call EXCEPT !.pc = "generateEmbedding"])

(***************************************************************************)
(* Specification of the store under interleaved calls                      *)
(***************************************************************************)
Init ==
  /\ documents = <<>>
  /\ calls = {}
  /\ clock = 0
  /\ ret = NoCall
  /\ returned = <<>>
  /\ page = NoPage

Next ==
  \/ \E id \in Ids, input \in Ingested :
       addDocumentCall(id, input.content, input.metadata) /\ UNCHANGED page
  \/ \E call \in calls, response \in EmbeddingResponses :
       addDocumentResume(call, response) /\ UNCHANGED page
  \/ \E id \in Ids : removeDocument(id) /\ UNCHANGED page
  \/ \E query \in {TextData}, topK \in {DefaultTopK} : searchCall(query, topK) /\ UNCHANGED page
  \/ \E call \in calls, response \in EmbeddingResponses :
       searchResume(call, response) /\ UNCHANGED page

Spec == Init /\ [][Next]_vars

(***************************************************************************)
(* Specification of one query on a populated store                         *)
(***************************************************************************)
QueryIds == {"1", "2", "3", "4"}

\* What addDocument can have stored under each id: the content, and the
\* embedding generateEmbedding gave for it.
Stored(id, content, metadata, embedding) ==
  [id |-> id, content |-> content, embedding |-> embedding, metadata |-> metadata]

Candidates ==
  [id \in QueryIds |->
     CASE id = "1" -> {Stored(id, TextDataModel, MetaA, lexicalVector[TextDataModel]),
                       Stored(id, TextDataModel, MetaA, Undefined),
                       Stored(id, TextCatsAnimals, MetaA, lexicalVector[TextCatsAnimals])}
       [] id = "2" -> {Stored(id, TextData, MetaB, lexicalVector[TextData])}
       [] id = "3" -> {Stored(id, TextData, MetaA, lexicalVector[TextData]),
                       Stored(id, TextData, MetaA, ProviderSkew)}
       [] id = "4" -> {Stored(id, TextCats, MetaB, lexicalVector[TextCats]),
                       Stored(id, TextWebSearch, MetaB, lexicalVector[TextWebSearch])}]

\* The stores: documents of different ids, in any order of insertion.
Stores ==
  UNION {{docs \in [1..n -> UNION {Candidates[id] : id \in QueryIds}] :
            \A i, j \in 1..n : docs[i].id = docs[j].id => i = j} :
         n \in 0..Cardinality(QueryIds)}

InitQuery ==
  /\ documents \in Stores
  /\ calls = {}
  /\ clock = 0
  /\ ret = NoCall
  /\ returned = <<>>
  /\ page = NoPage

\* The queries of search.
SearchQueries == Queries \cup {TextSmallPets}

\* One call of search, processRAGQuery or an accessor, run to its return;
\* the array of getAllDocuments may then be mutated by its caller.
NextQuery ==
  \/ \E query \in SearchQueries, topK \in TopKs : clock = 0 /\ searchCall(query, topK) /\ UNCHANGED page
  \/ \E call \in calls, response \in EmbeddingResponses :
       searchResume(call, response) /\ UNCHANGED page
  \/ \E query \in Queries : clock = 0 /\ processRAGQueryCall(query, DefaultTopK) /\ UNCHANGED page
  \/ \E call \in calls, response \in EmbeddingResponses :
       processRAGQuerySearched(call, response) /\ UNCHANGED page
  \/ \E call \in calls, response \in ChatResponses :
       processRAGQueryAnswered(call, response) /\ UNCHANGED page
  \/ clock = 0 /\ getAllDocuments /\ UNCHANGED page
  \/ shiftReturnedArray /\ UNCHANGED page
  \/ clock = 0 /\ getDocumentCount /\ UNCHANGED page
  \/ clock = 0 /\ getStats /\ UNCHANGED page

SpecQuery == InitQuery /\ [][NextQuery]_vars

(***************************************************************************)
(* Specification of buildContext on result lists and budgets               *)
(***************************************************************************)
LongTokens == 60

\* A document of LongTokens one-letter words, a space between each two.
TextLong == [i \in 1..(2 * LongTokens - 1) |-> IF i % 2 = 1 THEN "w" ELSE " "]

ContextDocuments ==
  {Stored("1", TextDataModel, MetaA, ProviderUnit),
   Stored("2", TextData, MetaB, ProviderUnit),
   Stored("3", TextLong, MetaA, ProviderUnit)}

\* Similarities search lets through: above 0.1, never NaN.
ContextSimilarities == {Num(1, 1), Num(1, 2)}

\* The result lists: results of different documents, in any order.
ResultLists ==
  UNION {{results \in [1..n -> [document : ContextDocuments,
                                similarity : ContextSimilarities]] :
            \A i, j \in 1..n :
              results[i].document.id = results[j].document.id => i = j} :
         n \in 0..Cardinality(ContextDocuments)}

\* Budgets below, at and above the sizes of the documents and the least
\* size of a partial document, with the default.
Budgets ==
  {1, 3, PartialMinimum, PartialMinimum + 2, PartialMinimum + 5, LongTokens + 2,
   DefaultMaxTokens}

\* buildContext(searchResults, query, maxTokens): the sort in place, then
\* the context.
buildContextCall(searchResults, maxTokens) ==
  /\ clock = 0
  /\ clock' = clock + 1
  /\ \E sorted \in sortBySimilarity(searchResults) :
       ret' = [NoCall EXCEPT !.op = "buildContext", !.seq = clock + 1,
                             !.pc = "returned", !.results = searchResults,
                             !.searchResults = sorted, !.maxTokens = maxTokens,
                             !.contextWindow = buildContext(sorted, maxTokens)]
  /\ UNCHANGED <<documents, calls, returned>>

NextContext ==
  \E searchResults \in ResultLists, maxTokens \in Budgets :
    buildContextCall(searchResults, maxTokens) /\ UNCHANGED page

SpecContext == Init /\ [][NextContext]_vars

(***************************************************************************)
(* Specification of generateAnswer on contexts and sources                 *)
(***************************************************************************)
\* Context texts: the empty one, and texts that are not empty.
Contexts == {<<>>, TextDataModel, TextCats}

\* One call of generateAnswer, run to its return.
NextAnswer ==
  \/ \E query \in Queries, context \in Contexts, sources \in ResultLists :
       clock = 0 /\ generateAnswerCall(query, context, sources) /\ UNCHANGED page
  \/ \E call \in calls, response \in ChatResponses :
       generateAnswerResume(call, response) /\ UNCHANGED page

SpecAnswer == Init /\ [][NextAnswer]_vars

(***************************************************************************)
(* Specification of the page: the handlers of RAGApplication               *)
(***************************************************************************)
\* What the user types, and the answers of the two providers.
PageTexts == {TextData, TextDataModel}

PageEmbeddingResponses ==
  {response \in EmbeddingResponses :
     response.rejected \/ (~EmbeddingFails(response) /\ response.embedding = ProviderUnit)}

PageChatResponses ==
  {response \in ChatResponses :
     response.rejected \/ (response.ok /\ response.json /\ response.answer # <<>>)}

NextPage ==
  \/ \E text \in PageTexts : setTextInput(text)
  \/ \E now \in Readings : addTextDocument(now)
  \/ \E call \in calls, response \in PageEmbeddingResponses :
       addTextDocumentResume(call, response)
  \/ \E i \in DOMAIN page.documents, text \in PageTexts :
       updateDocument(page.documents[i].id, page.documents[i].name, text)
  \/ \E call \in calls, response \in PageEmbeddingResponses :
       updateDocumentResume(call, response)
  \/ \E i \in DOMAIN page.documents : pageRemoveDocument(page.documents[i].id)
  \/ \E text \in {TextData} : setChatInput(text)
  \/ handleChat
  \/ \E call \in calls, response \in PageEmbeddingResponses :
       handleChatSearched(call, response)
  \/ \E call \in calls, response \in PageChatResponses :
       handleChatAnswered(call, response)

SpecPage == Init /\ [][NextPage]_vars

(***************************************************************************)
(* Specification of the chat of the page on one ingested document          *)
(***************************************************************************)
\* The document the page lists, and what the store can hold for it: the
\* embedding of the provider, the lexical one, or none.
ChatDocument ==
  [id |-> <<"1">>, name |-> textDocumentName(1), type |-> "text", content |-> TextData]

ChatStores ==
  {<<Stored(ChatDocument.id, ChatDocument.content,
            [name |-> ChatDocument.name, type |-> ChatDocument.type], embedding)>> :
     embedding \in {ProviderUnit, lexicalVector[TextData], Undefined}}

InitChat ==
  /\ documents \in ChatStores
  /\ calls = {}
  /\ clock = 0
  /\ ret = NoCall
  /\ returned = <<>>
  /\ page = [NoPage EXCEPT !.documents = <<ChatDocument>>, !.now = 1]

\* What the user types into the chat input: two questions and blanks.
ChatTexts == {TextData, TextCats, <<" ", " ">>}

NextChat ==
  \/ \E text \in ChatTexts : setChatInput(text)
  \/ handleChat
  \/ \E call \in calls, response \in EmbeddingResponses :
       handleChatSearched(call, response)
  \/ \E call \in calls, response \in ChatResponses :
       handleChatAnswered(call, response)
  \/ \E i \in DOMAIN page.documents : pageRemoveDocument(page.documents[i].id)

\* A request of the awaited processRAGQuery settles and the event loop
\* runs the continuation.
ChatSettles ==
  \E call \in calls :
    \/ \E response \in EmbeddingResponses : handleChatSearched(call, response)
    \/ \E response \in ChatResponses : handleChatAnswered(call, response)

\* Every fetch settles, by a response or a rejection: weak fairness of
\* ChatSettles, WF_vars(ChatSettles), written out with calls # {} for
\* ENABLED <<ChatSettles>>_vars (a step of ChatSettles is possible exactly
\* when a call is suspended).
ChatFairness == []<>(calls = {}) \/ []<><<ChatSettles>>_vars

SpecChat == InitChat /\ [][NextChat]_vars /\ ChatFairness

(***************************************************************************)
(* Specification of preprocessQuery and expandQuery on queries             *)
(***************************************************************************)
\* The words queries are made of: stopwords, a short word, words with
\* punctuation and capitals, keys of the synonym table, a word that
\* holds one and a name every object inherits.
QueryWords ==
  {<<"T","h","e">>, <<"A","I">>, <<"i","n">>, <<"D","a","t","a">>,
   <<"c","o","n","s","t","r","u","c","t","o","r">>,
   <<"d","a","t","a","b","a","s","e">>, <<"d","o","n","'","t">>, <<"i","n","f","o","r","m","a","t","i","o","n">>}

QuerySeparators == {<<" ">>, <<",", " ", " ">>}

MaxWords == 3

TextQuickFox == <<"T","h","e"," ","q","u","i","c","k"," ","f","o","x"," ","i","n"," ","t","h","e"," ","b","o","x">>

\* The queries: up to MaxWords words with a separator between each two,
\* and the query of the stopword scenario.
UtilityQueries ==
  {TextQuickFox} \cup
  UNION {{join(words, sep) : words \in [1..n -> QueryWords], sep \in QuerySeparators} :
         n \in 0..MaxWords}

NextUtility ==
  \/ \E query \in UtilityQueries : clock = 0 /\ preprocessQueryCall(query) /\ UNCHANGED page
  \/ \E query \in UtilityQueries : clock = 0 /\ expandQueryCall(query) /\ UNCHANGED page

SpecUtility == Init /\ [][NextUtility]_vars

(***************************************************************************)
(* Properties of the store                                                 *)
(***************************************************************************)
IdCount(docs, id) == Cardinality({i \in DOMAIN docs : docs[i].id = id})

\* The documents of docs whose id is not id, in their order.
RECURSIVE Others(_, _)
Others(docs, id) ==
  IF docs = <<>> THEN <<>>
  ELSE IF docs[1].id = id THEN Others(Tail(docs), id)
  ELSE <<docs[1]>> \o Others(Tail(docs), id)

\* C1: in every reachable state of the store, whatever calls of addDocument
\* and removeDocument have been made, returned or are still suspended, at
\* most one stored document carries any given id.
C1_AtMostOnePerId == \A id \in Ids : IdCount(documents, id) <= 1

\* An addDocument returned while an earlier addDocument of the same id is
\* still suspended, and the store holds that id.
C1_Witness ==
  /\ ret.op = "addDocument"
  /\ HasId(documents, ret.id)
  /\ \E call \in calls : call.op = "addDocument" /\ call.id = ret.id /\ call.seq < ret.seq

\* C2: when addDocument(id, c2, m2) returns right after an
\* addDocument(id, c1, m1) returned, the store holds exactly one document
\* of that id, its content is c2 and its metadata m2, and the documents of
\* the other ids are what they were.
C2_ReplaceKeepsOne ==
  [][\A call \in calls, response \in EmbeddingResponses :
       (/\ addDocumentResume(call, response)
        /\ ret.op = "addDocument" /\ ret.id = call.id)
       => /\ IdCount(documents', call.id) = 1
          /\ \A i \in DOMAIN documents' :
               documents'[i].id = call.id
               => /\ documents'[i].content = call.text
                  /\ documents'[i].metadata = call.metadata
          /\ Others(documents', call.id) = Others(documents, call.id)]_vars

\* Two addDocument calls of one id returned one after the other, with
\* different contents and metadata, and a document of another id is stored.
C2_Witness ==
  /\ Len(returned) >= 2
  /\ LET last == returned[Len(returned)]
         prev == returned[Len(returned) - 1]
     IN  /\ last.op = "addDocument" /\ prev.op = "addDocument"
         /\ last.id = prev.id
         /\ ret.seq = last.seq
         /\ \E i \in DOMAIN documents :
              documents[i].id = last.id /\ documents[i].content = ret.text
         /\ \E i \in DOMAIN documents : documents[i].id # last.id

\* C4: a search called on a store that holds no document returns the empty
\* sequence in that very step, having issued no embedding request and made
\* no fallback vectorization, and leaves no call suspended.
C4_EmptyStoreSearch ==
  [][\A query \in Queries, topK \in TopKs :
       (searchCall(query, topK) /\ Len(documents) = 0)
       => /\ ret'.op = "search" /\ ret'.seq = clock'
          /\ ret'.value = <<>>
          /\ ret'.fetches = 0 /\ ret'.fallbacks = 0
          /\ calls' = calls]_vars

\* A search returned [] from an emptied store without an embedding request.
C4_Witness ==
  /\ ret.op = "search" /\ ret.fetches = 0 /\ ret.value = <<>>
  /\ documents = <<>>
  /\ \E i \in DOMAIN returned : returned[i].op = "removeDocument"

\* C9: removeDocument(id) returns true exactly when a document of that id
\* was stored right before the call; afterwards none is, and the other
\* documents are kept, in their order.
C9_RemoveDocument ==
  [][\A id \in Ids :
       removeDocument(id)
       => /\ ret'.value = HasId(documents, id)
          /\ ~HasId(documents', id)
          /\ documents' = Others(documents, id)]_vars

\* A removeDocument returned true and another document is still stored.
C9_Witness ==
  /\ ret.op = "removeDocument" /\ ret.value = TRUE
  /\ Len(documents) >= 1

\* The outcomes of the embedding request C6 counts as failures: a network
\* error, a status that is not OK, and an OK response whose body has no
\* usable embedding (it is no JSON, or its embedding member is no array).
IsFailedEmbedding(response) ==
  response.rejected \/ ~response.ok \/ ~response.json \/ response.embedding.kind # "array"

\* C6: on every failed outcome of the embedding request generateEmbedding
\* returns the lexical vector of the text, so the document addDocument
\* returns carries it, and every stored document's embedding is a number
\* array.
C6_FallbackOnEveryFailure ==
  /\ [][\A call \in calls, response \in EmbeddingResponses :
          (addDocumentResume(call, response) /\ IsFailedEmbedding(response))
          => ret'.value.embedding = textToVector(call.text)]_vars
  /\ [](\A i \in DOMAIN documents : documents[i].embedding.kind = "array")


\* A call of search that has returned a value.
SearchReturned == ret.op = "search" /\ ~ret.threw

\* C3: for every store, query and k, search returns at most k results, in
\* descending order of similarity (no result has a lower similarity than
\* one after it), none with a similarity of 0.1 or less.
C3_TopKContract ==
  SearchReturned =>
    /\ Len(ret.value) <= ret.topK
    /\ \A i, j \in DOMAIN ret.value :
         i < j => ~NumLess(ret.value[i].similarity, ret.value[j].similarity)
    /\ \A i \in DOMAIN ret.value : GreaterThanCutoff(ret.value[i].similarity)

\* C8: when the query vector or the vector of a stored document is
\* all-zero, the similarity computed for the pair is 0, not NaN.
C8_ZeroVectorSimilarity ==
  \A i \in DOMAIN ret.results :
    (IsAllZero(ret.queryVector) \/ IsAllZero(ret.results[i].document.embedding))
      => /\ ~ret.results[i].similarity.nan
         /\ ret.results[i].similarity.num = 0

\* The place of a document in the store at the moment of the call:
\* ret.results holds the scored documents in the order of the store.
InsertionIndex(id) ==
  CHOOSE i \in DOMAIN ret.results : ret.results[i].document.id = id

C5_PipelineNeverThrows ==
  (ret.op = "processRAGQuery" /\ ret.pc = "returned") =>
    /\ ~ret.threw
    /\ ret.value # NoValue
    /\ ret.caught =>
         /\ ret.value.answer.template = "encountered an error"
         /\ ret.value.context.query = ret.text
         /\ ret.value.context.retrievedDocuments = <<>>
         /\ ret.value.context.contextWindow = <<>>
         /\ ret.value.context.confidence = 0
         /\ ret.value.sources = <<>>

\* A call of processRAGQuery whose search raised on a stored document
\* and which has returned.
C5_Witness ==
  /\ ret.op = "processRAGQuery" /\ ret.pc = "returned" /\ ret.caught
  /\ ret.queryVector # Undefined
  /\ \E i \in DOMAIN documents : documents[i].embedding = Undefined


\* The whitespace-delimited tokens of a string.
tokensOf(text) ==
  LET NonEmpty(piece) == piece # <<>> IN SelectSeq(splitWhitespace(text), NonEmpty)

\* C7: for every result list and maxTokens, the string buildContext
\* returns, provenance headers included, has at most maxTokens
\* whitespace-delimited tokens.
C7_ContextBudget ==
  ret.op = "buildContext" => Len(tokensOf(ret.contextWindow)) <= ret.maxTokens


\* A call of processRAGQuery that has returned.
PipelineReturned == ret.op = "processRAGQuery" /\ ret.pc = "returned"

\* C11: in every response of processRAGQuery, context.confidence is an
\* integer in 0..100, it is 0 when nothing was retrieved, and otherwise it
\* is the rounding of 100 times the mean similarity of the retrieved
\* results: 100 * mean lies in [confidence - 1/2, confidence + 1/2).
C11_Confidence ==
  PipelineReturned =>
    LET confidence == ret.value.context.confidence
        retrieved == ret.value.context.retrievedDocuments
        n == Len(retrieved)
        ends == [i \in DOMAIN retrieved |-> Enclose(retrieved[i].similarity)]
        low == SumSeq([i \in DOMAIN retrieved |-> ends[i].low])
        high == SumSeq([i \in DOMAIN retrieved |-> ends[i].high])
    IN  /\ confidence \in 0..100
        /\ n = 0 => confidence = 0
        /\ n > 0 => /\ (2 * confidence - 1) * n * Precision <= 200 * low
                    /\ 200 * high < (2 * confidence + 1) * n * Precision

\* A response with two retrieved results of different similarities, whose
\* mean is not a whole percentage.
C11_Witness ==
  /\ PipelineReturned /\ ~ret.caught
  /\ Len(ret.value.context.retrievedDocuments) = 2
  /\ ~NumEq(ret.value.context.retrievedDocuments[1].similarity,
            ret.value.context.retrievedDocuments[2].similarity)
  /\ ret.value.context.confidence = 85


\* C12: processRAGQuery invoked on the store of zero documents returns
\* confidence 0, no sources and the answer that quotes the query, and it
\* issues no request to the embedding or the completion provider (no call
\* of it is ever suspended on the empty store).
C12_EmptyStoreQuery ==
  documents = <<>> =>
    /\ \A call \in calls : call.op # "processRAGQuery"
    /\ PipelineReturned =>
         /\ ret.value.context.confidence = 0
         /\ ret.value.sources = <<>>
         /\ ret.value.answer.template = "insufficient information"
         /\ ret.value.answer.query = ret.text
         /\ ret.fetches = 0 /\ ret.completions = 0

\* processRAGQuery has returned on the empty store.
C12_Witness == documents = <<>> /\ PipelineReturned /\ ret.text = TextCats


\* A call of generateAnswer with the empty context or no sources.
AnswerWithoutMaterial(call) ==
  call.op = "generateAnswer" /\ (call.contextWindow = <<>> \/ call.searchResults = <<>>)

\* C13: generateAnswer called with the empty context text or the empty
\* list of sources returns the insufficient-information message for the
\* query and issues no request to the completion provider.
C13_InsufficientInformation ==
  /\ \A call \in calls : ~AnswerWithoutMaterial(call)
  /\ AnswerWithoutMaterial(ret) =>
       /\ ret.pc = "returned"
       /\ ret.value = insufficientAnswer(ret.text)
       /\ ret.completions = 0

\* generateAnswer has returned for the empty context and sources that are
\* not empty.
C13_Witness ==
  /\ ret.op = "generateAnswer" /\ ret.pc = "returned"
  /\ ret.contextWindow = <<>> /\ Len(ret.searchResults) = 2

\* The completion request failed: the fetch rejected or the status was
\* not OK.
CompletionFailed(response) == response.rejected \/ ~response.ok

\* C14: whenever the completion request fails for a context and sources
\* that are not empty, generateAnswer resolves to the extractive answer,
\* whose trailer reports the number of sources and the rounded mean
\* similarity percentage; the failure is not propagated.
C14_ExtractiveFallback ==
  [][\A call \in calls, response \in ChatResponses :
       (CompletionFailed(response) /\ generateAnswerResume(call, response)) =>
         /\ ~ret'.threw
         /\ ret'.value.template = "extractive"
         /\ ret'.value.query = call.text
         /\ ret'.value.count = Len(call.searchResults)
         /\ ret'.value.percent = confidenceOf(call.searchResults)]_vars

\* generateAnswer has returned the extractive answer for three sources.
C14_Witness ==
  /\ ret.op = "generateAnswer" /\ ret.pc = "returned"
  /\ ret.value.template = "extractive" /\ ret.value.count = 3
  /\ ret.value.percent = 80


\* C15: with the embedding provider failing and the store holding exactly
\* the document of id "1" and content "Cats are small domesticated
\* animals.", search("small pets") returns that document as its first
\* result, with a similarity above 0.1.
C15_SmallPetsScenario ==
  (/\ SearchReturned /\ ret.pc = "returned"
   /\ ret.text = TextSmallPets /\ ret.fallbacks = 1
   /\ documents = <<Stored("1", TextCatsAnimals, MetaA, lexicalVector[TextCatsAnimals])>>)
    => /\ Len(ret.value) >= 1
       /\ ret.value[1].document.id = "1"
       /\ GreaterThanCutoff(ret.value[1].similarity)


\* Every embedding of the store is the lexical vector of its content: the
\* provider failed on every addDocument.
AllLexical(docs) ==
  \A i \in DOMAIN docs : docs[i].embedding = lexicalVector[docs[i].content]

\* C16: when every call of the embedding provider fails, for every store
\* that is not empty and every query, search resolves, and its results
\* are in descending order of the cosine similarity of the lexical
\* vectors.
C16_FallbackRanking ==
  (/\ ret.op = "search" /\ ret.pc = "returned" /\ ret.fallbacks = 1
   /\ documents # <<>> /\ AllLexical(documents))
    => /\ ~ret.threw
       /\ \A i \in DOMAIN ret.value :
            ret.value[i].similarity =
              cosineSimilarity(lexicalVector[ret.text], ret.value[i].document.embedding)
       /\ \A i, j \in DOMAIN ret.value :
            i < j => ~NumLess(ret.value[i].similarity, ret.value[j].similarity)

\* C17: when the query vector and the vector of a stored document have
\* different lengths, search yields similarity 0 for the pair or raises;
\* it does not compute a value from a read past the end of the shorter
\* vector or from a part of the longer one.
C17_DimensionMismatch ==
  (ret.op = "search" /\ ret.pc = "returned" /\ ~ret.threw) =>
    \A i \in DOMAIN ret.results :
      ret.queryVector.len # ret.results[i].document.embedding.len
        => /\ ~ret.results[i].similarity.nan
           /\ ret.results[i].similarity.num = 0


\* The calls of addDocument and search in flight on the vectorStore; the
\* search of a processRAGQuery call is in flight until its embedding
\* arrives.
StoreCallsInFlight ==
  {call \in calls :
     \/ call.op = "addDocument"
     \/ call.op = "search"
     \/ call.op = "processRAGQuery" /\ call.pc = "generateEmbedding"}

\* C18: the application serializes the operations of the store: a call of
\* addDocument, removeDocument or search is started only when no call
\* started before it is still in flight.
C18_StoreCallsSerialized ==
  [][clock' = clock + 1 => StoreCallsInFlight = {}]_vars


\* The lowercase word tokens of a query that are longer than two
\* characters and are no stopword, in their order.
ContentTokens(query) ==
  LET Kept(word) == Len(word) > 2 /\ word \notin stopWords
  IN  SelectSeq(matchWords(toLowerCase(query)), Kept)

\* C19: for every query, preprocessQuery returns the lowercase word tokens
\* of the query in their order, joined by single spaces, without the
\* tokens of length 2 or less and without the stopwords; for "The quick
\* fox in the box" it returns "quick fox box".
C19_PreprocessQuery ==
  ret.op = "preprocessQuery" =>
    /\ ret.value = join(ContentTokens(ret.text), <<" ">>)
    /\ ret.text = TextQuickFox =>
         ret.value = <<"q","u","i","c","k"," ","f","o","x"," ","b","o","x">>

\* preprocessQuery has returned for a query with a stopword, a word of one
\* letter left by an apostrophe and a word that stays.
C19_Witness ==
  /\ ret.op = "preprocessQuery"
  /\ ret.text = <<"T","h","e",","," "," ","d","o","n","'","t",","," "," ","D","a","t","a">>
  /\ ret.value = <<"d","o","n"," ","d","a","t","a">>


\* The tokens of a preprocessed query.
TokensOfBase(baseQuery) == IF baseQuery = <<>> THEN <<>> ELSE splitWhitespace(baseQuery)

\* text is the base query with the whole token at some place, a key of
\* the synonym table, replaced by one of its synonyms.
IsTokenSubstitution(text, baseQuery) ==
  LET tokens == TokensOfBase(baseQuery)
  IN  \E i \in DOMAIN tokens :
        /\ tokens[i] \in synonymKeys
        /\ \E k \in DOMAIN synonymsOf(tokens[i]) :
             text = join([j \in DOMAIN tokens |->
                            IF j = i THEN synonymsOf(tokens[i])[k] ELSE tokens[j]],
                         <<" ">>)

\* C20: for every query, each string expandQuery adds after the base
\* query is the preprocessed query with exactly one whole token, a key of
\* the synonym table, replaced by one of its synonyms.
C20_WholeTokenSubstitution ==
  (ret.op = "expandQuery" /\ ~ret.threw) =>
    \A k \in DOMAIN ret.value :
      k > 1 => IsTokenSubstitution(ret.value[k], ret.value[1])

\* No string occurs twice in a sequence of strings.
NoDuplicates(expansions) ==
  \A i, j \in DOMAIN expansions : expansions[i] = expansions[j] => i = j

\* C21: for every query, expandQuery returns a sequence whose first
\* element is preprocessQuery(query) and that holds no string twice; when
\* a token of the preprocessed query is a key of the synonym table, the
\* sequence holds at least one variant with a token replaced by a synonym.
C21_ExpansionContract ==
  ret.op = "expandQuery" =>
    /\ ~ret.threw
    /\ Len(ret.value) >= 1
    /\ ret.value[1] = preprocessQuery(ret.text)
    /\ NoDuplicates(ret.value)
    /\ (\E i \in DOMAIN TokensOfBase(ret.value[1]) :
          TokensOfBase(ret.value[1])[i] \in synonymKeys)
         => \E k \in DOMAIN ret.value :
              k > 1 /\ IsTokenSubstitution(ret.value[k], ret.value[1])

\* docContent.split(/\s+/).length of result i.
DocTokens(results, i) == Len(splitWhitespace(results[i].document.content))

\* The tokens of the documents before result i.
TokensBefore(results, i) == SumSeq([j \in 1..(i - 1) |-> DocTokens(results, j)])

\* The first result that would overflow the budget, or 0.
FirstOverflow(results, maxTokens) ==
  LET over == {i \in DOMAIN results : TokensBefore(results, i + 1) > maxTokens}
  IN  IF over = {} THEN 0 ELSE CHOOSE i \in over : \A j \in over : i <= j

\* The documents before result i, whole, each under its header.
WholeDocuments(results, i) ==
  IF i <= 1 THEN <<>>
  ELSE buildContextFrom(SubSeq(results, 1, i - 1), 1, <<>>, 0,
                        TokensBefore(results, i))

\* The leading n tokens of result i under its header.
Fragment(results, i, n) ==
  provenanceHeader(results[i])
  \o join(SubSeq(splitWhitespace(results[i].document.content), 1, n), <<" ">>)
  \o <<".", ".", ".", "\n">>

\* C22: in buildContext, when the next document would overflow the token
\* budget, the context is the documents before it followed by its leading
\* remaining-budget tokens if at least 50 tokens of budget remain, and the
\* documents before it alone if fewer than 50 remain; no later document
\* is appended in either case.
C22_PartialFragment ==
  (ret.op = "buildContext" /\ FirstOverflow(ret.searchResults, ret.maxTokens) # 0) =>
    LET i == FirstOverflow(ret.searchResults, ret.maxTokens)
        remaining == ret.maxTokens - TokensBefore(ret.searchResults, i)
        whole == WholeDocuments(ret.searchResults, i)
    IN  ret.contextWindow =
          trim(IF remaining >= 50
               THEN whole \o Fragment(ret.searchResults, i, remaining)
               ELSE whole)

\* The same with the fragment from 51 remaining tokens on, as the code
\* has it.
C22_FromFiftyOne ==
  (ret.op = "buildContext" /\ FirstOverflow(ret.searchResults, ret.maxTokens) # 0) =>
    LET i == FirstOverflow(ret.searchResults, ret.maxTokens)
        remaining == ret.maxTokens - TokensBefore(ret.searchResults, i)
        whole == WholeDocuments(ret.searchResults, i)
    IN  ret.contextWindow =
          trim(IF remaining > 50
               THEN whole \o Fragment(ret.searchResults, i, remaining)
               ELSE whole)

\* The calls of processRAGQuery: the suspended ones and the one that
\* returned last.
PipelineCalls == {call \in calls \cup {ret} : call.op = "processRAGQuery"}

\* The stage a call of processRAGQuery is at: retrieving, generating the
\* answer, returned.
StageOf(call) ==
  CASE call.pc = "generateEmbedding" -> 1
    [] call.pc = "generateAnswer" -> 2
    [] call.pc = "returned" -> 3
    [] OTHER -> 0

\* C23: every run of processRAGQuery goes through retrieve, build context,
\* compute confidence, generate answer and assemble response in this
\* order: no completion request is made while search has not returned, at
\* most one is made per query and only with at least one search result,
\* the context and the confidence are those of the search results, and no
\* call goes back to an earlier stage.
C23_StageOrder ==
  /\ [](\A call \in PipelineCalls :
         /\ call.completions \in {0, 1}
         /\ StageOf(call) = 1 => call.completions = 0
         /\ call.completions = 1 =>
              /\ StageOf(call) >= 2
              /\ Len(call.searchResults) >= 1
              /\ call.contextWindow = buildContext(call.searchResults, DefaultMaxTokens)
              /\ call.confidence = confidenceOf(call.searchResults)
         /\ (StageOf(call) = 3 /\ ~call.caught) =>
              call.value.context = [query |-> call.text,
                                    retrievedDocuments |-> call.searchResults,
                                    contextWindow |-> call.contextWindow,
                                    confidence |-> call.confidence])
  /\ [][\A before \in PipelineCalls :
          \A after \in (calls' \cup {ret'}) :
            after.seq = before.seq =>
              /\ StageOf(after) >= StageOf(before)
              /\ after.completions >= before.completions]_vars

\* A query went through all stages: its search returned results, one
\* completion request was made and the response was assembled.
C23_Witness ==
  /\ PipelineReturned
  /\ ret.completions = 1
  /\ ret.fetches = 1
  /\ Len(ret.searchResults) >= 2

\* The calls of addDocument(id, ...) invoked after the call of number seq,
\* returned or suspended.
AddsAfter(id, seq) ==
  {entry \in Range(returned) \cup {Entry(call) : call \in calls} :
     entry.op = "addDocument" /\ entry.id = id /\ entry.seq > seq}

\* removeDocument(id) returned at place r of the history while an
\* addDocument(id, ...) was suspended, which has returned since.
RemovedDuringAdd(id, r) ==
  /\ returned[r].op = "removeDocument" /\ returned[r].id = id
  /\ \E a \in DOMAIN returned :
       /\ a > r
       /\ returned[a].op = "addDocument" /\ returned[a].id = id
       /\ returned[a].seq < returned[r].seq

\* C24: if removeDocument(id) is called while a call of addDocument(id,
\* ...) awaits its embedding and no addDocument(id, ...) is invoked after
\* the removal, then once no call is in flight the store holds no
\* document of that id.
C24_RemoveWinsOverPendingAdd ==
  \A id \in Ids : \A r \in DOMAIN returned :
    (/\ RemovedDuringAdd(id, r)
     /\ AddsAfter(id, returned[r].seq) = {}
     /\ calls = {})
    => ~HasId(documents, id)

\* The suspended calls on the documents of id.
SuspendedOn(id) == {call \in calls : call.op = "addDocument" /\ call.id = id}

\* C25: when two calls of addDocument for one id overlap, after both have
\* completed the stored document of that id has the content of the call
\* invoked last, in whichever order the two embeddings resolve: when a
\* call of addDocument returns right after another of its id returned,
\* with no further call of that id suspended, the stored content is that
\* of the one invoked later.
C25_LastInvokedWins ==
  [][\A call \in calls, response \in EmbeddingResponses :
       (/\ addDocumentResume(call, response)
        /\ ret.op = "addDocument" /\ ret.id = call.id
        /\ SuspendedOn(call.id) = {call})
       => \A i \in DOMAIN documents' :
            documents'[i].id = call.id
            => documents'[i].content = IF ret.seq > call.seq THEN ret.text ELSE call.text]_vars

\* The (id, content) pairs of a list of documents.
IdContents(docs) == {<<docs[i].id, docs[i].content>> : i \in DOMAIN docs}

\* No handler of the page awaits a call and no call of the store is
\* suspended.
PageQuiescent == page.pending = {} /\ calls = {}

\* C26: whenever no ingestion, edit or delete is in flight in the
\* application, the documents list of the page and the vectorStore hold
\* the same ids with the same content for each id.
C26_PageMatchesStore ==
  PageQuiescent => IdContents(page.documents) = IdContents(documents)

\* The stored documents whose similarity to the query vector is a number
\* above 0.1.
RelevantDocuments(docs, queryVector) ==
  {i \in DOMAIN docs :
     /\ ~cosineThrows(queryVector, docs[i].embedding)
     /\ GreaterThanCutoff(cosineSimilarity(queryVector, docs[i].embedding))}

\* C27: for every store and k >= 1, if a stored document has a similarity
\* above 0.1 to the query, search returns a result that is not empty and
\* whose first element has the greatest similarity of the store, also
\* when other stored documents have the similarity NaN.
C27_BestMatchFirst ==
  (/\ ret.op = "search" /\ ret.pc = "returned" /\ ret.topK >= 1
   /\ RelevantDocuments(documents, ret.queryVector) # {})
    => /\ ~ret.threw
       /\ ret.value # <<>>
       /\ \A i \in RelevantDocuments(documents, ret.queryVector) :
            ~NumLess(ret.value[1].similarity,
                     cosineSimilarity(ret.queryVector, documents[i].embedding))

\* The operations that read the store.
ReadOnlyOps == {"search", "getAllDocuments", "getDocumentCount", "getStats", "processRAGQuery"}

\* The step starts, resumes or returns a call of a reading operation, or
\* mutates the array getAllDocuments returned.
IsReadingStep ==
  \/ ret' # ret /\ ret'.op \in ReadOnlyOps
  \/ \E call \in calls' \ calls : call.op \in ReadOnlyOps

\* C28: search, getAllDocuments, getDocumentCount, getStats and
\* processRAGQuery leave the store unchanged: the sequence of stored
\* documents with their ids, contents, embeddings and order is the same
\* after each of their steps, and it stays the same when the array
\* getAllDocuments returned is mutated.
C28_ReadersLeaveStore ==
  [][IsReadingStep => documents' = documents]_vars

\* The caller of getAllDocuments has removed every element of the array it
\* got from a store of three documents, which still holds them.
C28_Witness ==
  /\ ret.op = "getAllDocuments"
  /\ ret.value.array = <<>>
  /\ ~ret.value.shared
  /\ Len(documents) = 3

\* C29: in every response of processRAGQuery, context.confidence is 0
\* exactly when sources is empty; when sources is not empty, it equals
\* context.retrievedDocuments, context.contextWindow is not empty and the
\* confidence is at least 10.
C29_ConfidenceAndSources ==
  PipelineReturned =>
    LET response == ret.value
    IN  /\ response.context.confidence = 0 <=> response.sources = <<>>
        /\ response.sources # <<>> =>
             /\ response.sources = response.context.retrievedDocuments
             /\ response.context.contextWindow # <<>>
             /\ response.context.confidence >= 10

\* A response with sources after a search that filtered a result out,
\* with a confidence below 100.
C29_Witness ==
  /\ PipelineReturned /\ ~ret.caught
  /\ ret.value.sources # <<>>
  /\ Len(ret.value.sources) < Len(ret.results)
  /\ ret.value.context.confidence < 100

\* The messages are user and assistant messages in turn, the first a user
\* message.
MessagesAlternate ==
  \A i \in DOMAIN page.messages :
    page.messages[i].role = IF i % 2 = 1 THEN "user" ELSE "assistant"

\* C30: every handleChat invocation with an input that is not blank
\* eventually appends exactly one assistant message after its user
\* message and eventually resets isChatProcessing to false, whether the
\* pipeline answers, falls back or fails; while isChatProcessing is true
\* the input controls start no second handleChat.
C30_ChatCompletes ==
  /\ [](MessagesAlternate /\ (page.isChatProcessing <=> Len(page.messages) % 2 = 1))
  /\ [][page.isChatProcessing =>
          \/ page'.messages = page.messages
          \/ /\ Len(page'.messages) = Len(page.messages) + 1
             /\ SubSeq(page'.messages, 1, Len(page.messages)) = page.messages
             /\ page'.messages[Len(page'.messages)].role = "assistant"
             /\ ~page'.isChatProcessing]_vars
  /\ \A n \in 1..MaxCalls :
       (Len(page.messages) = 2 * n - 1) ~>
         (Len(page.messages) = 2 * n /\ ~page.isChatProcessing)

\* Two chats have been answered, the first by the error response of the
\* pipeline after its search threw, and none is being processed.
C30_Witness ==
  /\ Len(page.messages) = 4
  /\ ~page.isChatProcessing
  /\ page.messages[2].answer.template = "encountered an error"
  /\ page.messages[3].role = "user"

\* A chat has been answered by the extractive fallback and another by the
\* provider.
C30_WitnessFallback ==
  /\ Len(page.messages) = 4
  /\ page.messages[2].answer.template = "extractive"
  /\ page.messages[4].answer.template = "provider"

====
